---------------------------- MODULE Spec2Model ----------------------------
(***************************************************************************)
(* ConsciousDay: the reflection agent (agent/reflection_agent.py), the     *)
(* entry store (db/database.py) and the form handler (main.py).            *)
(*                                                                         *)
(* Text is a sequence of lexemes.  In the texts that are scanned (the      *)
(* provider replies and the arguments of _extract_json_from_text) a lexeme *)
(* is a single character (backtick, brace, bracket, quote, colon, comma,   *)
(* blank, newline, the digit 5) or an indivisible word made of letters     *)
(* only ("json", "null", "x", the four result keys).  No word contains a   *)
(* delimiter, a blank or a backtick, and no word begins with a letter that *)
(* starts a JSON literal other than the word "null" itself, so the regular *)
(* expressions, str.strip, str.find and json.loads act on a sequence of    *)
(* lexemes exactly as they act on the characters the lexemes spell.        *)
(* Texts the code only passes on (error messages, failure details, the     *)
(* form inputs, dates) are one opaque lexeme each.                         *)
(***************************************************************************)
EXTENDS Integers, Sequences, FiniteSets, TLC

VARIABLES
    OPENAI_API_KEY,    \* module global, read once at import
    TOGETHER_API_KEY,  \* module global, read once at import
    provider,          \* what the provider client does when it is built and run
    request,           \* the four inputs of the invocation
    pc,                \* "idle", "returned", "raised"
    handler,           \* which entry point ran
    ret,               \* value returned by generate_reflection
    exc,               \* exception that left generate_reflection
    calls,             \* prompts handed to chain.run in this invocation
    schema,            \* TRUE once the entries table exists
    table,             \* rows of the entries table, in rowid order
    seq_id,            \* sqlite_sequence: largest id ever given
    log,               \* history: arguments of every save_entry call, in order
    qdate,             \* argument of the last get_entry_by_date
    qrows,             \* rows returned by the last get_entry_by_date
    qat,               \* history: number of save_entry calls before that query
    xin,               \* argument of _extract_json_from_text
    xout,              \* its result
    xpc,
    ndata,             \* a parsed payload
    nout,              \* its normalized result
    npc

vars == <<OPENAI_API_KEY, TOGETHER_API_KEY, provider, request, pc, handler, ret,
          exc, calls, schema, table, seq_id, log, qdate, qrows, qat, xin, xout, xpc,
          ndata, nout, npc>>

----------------------------------------------------------------------------
(* Bounds *)

\* pieces in an argument of _extract_json_from_text
MaxPieces == 4

\* members of an object literal in a provider reply
MaxMembers == 2

\* save_entry calls in a run of the entry store
MaxRows == 4

----------------------------------------------------------------------------
(* Lexemes *)

DQ == "\""
NL == "\n"
\* the backtick character
BT == "BACKTICK"

Whitespace == {" ", NL}

\* Python values: every value carries its type tag; s holds the text of a
\* str, d the mapping of a dict, l the items of a list.
PyNone == [t |-> "NoneType", s |-> <<>>, d |-> <<>>, l |-> <<>>]

PyStr(s) == [t |-> "str", s |-> s, d |-> <<>>, l |-> <<>>]

PyInt(digits) == [t |-> "int", s |-> digits, d |-> <<>>, l |-> <<>>]

PyDict(d) == [t |-> "dict", s |-> <<>>, d |-> d, l |-> <<>>]

PyList(l) == [t |-> "list", s |-> <<>>, d |-> <<>>, l |-> l]

\* Python truthiness of None and str
Truthy(v) == v.t = "str" /\ v.s # <<>>

\* x or ""
OrEmpty(v) == IF Truthy(v) THEN v ELSE PyStr(<<>>)

----------------------------------------------------------------------------
(* str.strip, str.find, str.rfind, re.sub *)

RECURSIVE SkipWs(_, _)
\* index of the first lexeme at or after i that is not whitespace
SkipWs(s, i) ==
    IF i <= Len(s) /\ s[i] \in Whitespace THEN SkipWs(s, i + 1) ELSE i

RECURSIVE SkipWsBack(_, _)
SkipWsBack(s, i) ==
    IF i >= 1 /\ s[i] \in Whitespace THEN SkipWsBack(s, i - 1) ELSE i

Strip(s) ==
    LET a == SkipWs(s, 1)
        b == SkipWsBack(s, Len(s))
    IN  IF a > b THEN <<>> ELSE SubSeq(s, a, b)

\* str.find where the code calls str.rfind
RFind_FirstMatch(s, c) ==
    IF \E i \in 1..Len(s) : s[i] = c
    THEN CHOOSE i \in 1..Len(s) : s[i] = c /\ \A j \in 1..(i - 1) : s[j] # c
    ELSE 0

\* str.find / str.rfind of a single lexeme; 0 stands for the -1 of Python and
\* positions are 1-based
Find(s, c) ==
    IF \E i \in 1..Len(s) : s[i] = c
    THEN CHOOSE i \in 1..Len(s) : s[i] = c /\ \A j \in 1..(i - 1) : s[j] # c
    ELSE 0

RFind(s, c) ==
    IF \E i \in 1..Len(s) : s[i] = c
    THEN CHOOSE i \in 1..Len(s) : s[i] = c /\ \A j \in (i + 1)..Len(s) : s[j] # c
    ELSE 0

ThreeBackticksAt(s, i) ==
    i + 2 <= Len(s) /\ s[i] = BT /\ s[i + 1] = BT /\ s[i + 2] = BT

\* end (exclusive) of the match of ```(?:json)?\s* that starts at i
OpenFenceEnd(s, i) ==
    LET j == IF i + 3 <= Len(s) /\ s[i + 3] = "json" THEN i + 4 ELSE i + 3
    IN  SkipWs(s, j)

RECURSIVE SubOpenFence(_, _)
\* re.sub(r"```(?:json)?\s*", "", s): every leftmost non-overlapping match,
\* scanning from i
SubOpenFence(s, i) ==
    IF i > Len(s) THEN <<>>
    ELSE IF ThreeBackticksAt(s, i) THEN SubOpenFence(s, OpenFenceEnd(s, i))
    ELSE <<s[i]>> \o SubOpenFence(s, i + 1)

\* \s*```$ matches at i: blanks, three backticks, then the end of the string
\* or a newline that ends the string
CloseFenceAt(s, i) ==
    LET j == SkipWs(s, i)
    IN  /\ ThreeBackticksAt(s, j)
        /\ \/ j + 2 = Len(s)
           \/ j + 3 = Len(s) /\ s[Len(s)] = NL

\* re.sub(r"\s*```$", "", s)
SubCloseFence(s) ==
    IF \E i \in 1..Len(s) : CloseFenceAt(s, i)
    THEN LET i == CHOOSE k \in 1..Len(s) :
                      CloseFenceAt(s, k) /\ \A m \in 1..(k - 1) : ~CloseFenceAt(s, m)
             j == SkipWs(s, i)
         IN  SubSeq(s, 1, i - 1) \o SubSeq(s, j + 3, Len(s))
    ELSE s

\* lines 107-108
RemoveFences(s) == Strip(SubCloseFence(Strip(SubOpenFence(s, 1))))

\* the cleaned text returned whether or not it holds a brace pair
ExtractJsonFromText_NoBraceCheck(text) ==
    IF ~Truthy(text) THEN PyNone
    ELSE IF RemoveFences(text.s) = <<>> THEN PyNone
    ELSE PyStr(RemoveFences(text.s))

\* _extract_json_from_text: PyNone or the extracted str
ExtractJsonFromText(text) ==
    IF ~Truthy(text) THEN PyNone
    ELSE LET fenced_removed == RemoveFences(text.s)
             n == Len(fenced_removed)
             start == Find(fenced_removed, "{")
             end == RFind(fenced_removed, "}")
         IN  IF n > 0 /\ fenced_removed[1] = "{" /\ fenced_removed[n] = "}"
             THEN PyStr(fenced_removed)
             ELSE IF start # 0 /\ end # 0 /\ end > start
             THEN PyStr(Strip(SubSeq(fenced_removed, start, end)))
             ELSE PyNone

----------------------------------------------------------------------------
(* json.loads (line 171), as the scanner of the standard library works *)

Digits == {"5"}

\* characters below U+0020, which a JSON string may not hold unescaped
ControlChars == {NL}

ParseFail == [ok |-> FALSE, v |-> PyNone, i |-> 0]

ParseOk(v, i) == [ok |-> TRUE, v |-> v, i |-> i]

RECURSIVE ScanString(_, _, _)
\* scanstring: i is the position after the opening quote
ScanString(s, i, acc) ==
    IF i > Len(s) THEN ParseFail
    ELSE IF s[i] = DQ THEN ParseOk(PyStr(acc), i + 1)
    ELSE IF s[i] \in ControlChars THEN ParseFail
    ELSE ScanString(s, i + 1, Append(acc, s[i]))

RECURSIVE MatchNumber(_, _, _)
\* match_number: the longest run of digits at i
MatchNumber(s, i, acc) ==
    IF i <= Len(s) /\ s[i] \in Digits
    THEN MatchNumber(s, i + 1, Append(acc, s[i]))
    ELSE ParseOk(PyInt(acc), i)

RECURSIVE ScanOnce(_, _)
RECURSIVE ObjectLoop(_, _, _)
RECURSIVE ArrayLoop(_, _, _)

\* JSONObject: end is the position after the opening brace
JSONObject(s, end) ==
    LET e == SkipWs(s, end)
    IN  IF e > Len(s) THEN ParseFail
        ELSE IF s[e] = "}" THEN ParseOk(PyDict(<<>>), e + 1)
        ELSE IF s[e] # DQ THEN ParseFail
        ELSE ObjectLoop(s, e + 1, <<>>)

\* one "key": value member and what follows it; a repeated key keeps the
\* last value
ObjectLoop(s, end, d) ==
    LET key == ScanString(s, end, <<>>)
        colon == SkipWs(s, key.i)
        value == ScanOnce(s, SkipWs(s, colon + 1))
        pairs == (key.v.s :> value.v) @@ d
        nxt == SkipWs(s, value.i)
        q == SkipWs(s, nxt + 1)
    IN  IF ~key.ok THEN ParseFail
        ELSE IF colon > Len(s) \/ s[colon] # ":" THEN ParseFail
        ELSE IF ~value.ok THEN ParseFail
        ELSE IF nxt > Len(s) THEN ParseFail
        ELSE IF s[nxt] = "}" THEN ParseOk(PyDict(pairs), nxt + 1)
        ELSE IF s[nxt] # "," THEN ParseFail
        ELSE IF q > Len(s) \/ s[q] # DQ THEN ParseFail
        ELSE ObjectLoop(s, q + 1, pairs)

\* JSONArray: end is the position after the opening bracket
JSONArray(s, end) ==
    LET e == SkipWs(s, end)
    IN  IF e > Len(s) THEN ParseFail
        ELSE IF s[e] = "]" THEN ParseOk(PyList(<<>>), e + 1)
        ELSE ArrayLoop(s, e, <<>>)

ArrayLoop(s, end, items) ==
    LET value == ScanOnce(s, end)
        nxt == SkipWs(s, value.i)
    IN  IF ~value.ok THEN ParseFail
        ELSE IF nxt > Len(s) THEN ParseFail
        ELSE IF s[nxt] = "]" THEN ParseOk(PyList(Append(items, value.v)), nxt + 1)
        ELSE IF s[nxt] # "," THEN ParseFail
        ELSE ArrayLoop(s, SkipWs(s, nxt + 1), Append(items, value.v))

\* scan_once: the value that starts at i
ScanOnce(s, i) ==
    IF i > Len(s) THEN ParseFail
    ELSE IF s[i] = DQ THEN ScanString(s, i + 1, <<>>)
    ELSE IF s[i] = "{" THEN JSONObject(s, i + 1)
    ELSE IF s[i] = "[" THEN JSONArray(s, i + 1)
    ELSE IF s[i] = "null" THEN ParseOk(PyNone, i + 1)
    ELSE IF s[i] \in Digits THEN MatchNumber(s, i, <<>>)
    ELSE ParseFail

\* json.loads(s): ok is FALSE where it raises JSONDecodeError
JsonLoads(s) ==
    LET r == ScanOnce(s, SkipWs(s, 1))
    IN  IF ~r.ok THEN ParseFail
        ELSE IF SkipWs(s, r.i) # Len(s) + 1 THEN ParseFail
        ELSE r

----------------------------------------------------------------------------
(* generate_reflection *)

ResultKeys == {"reflection", "dream_summary", "mindset", "strategy"}

ErrorKeys == {"error", "raw"}

NoApiKeyMsg ==
    PyStr(<<"No API key configured. Set OPENAI_API_KEY (for OpenRouter/OpenAI) or TOGETHER_API_KEY.">>)

LlmCallFailedMsg == PyStr(<<"LLM call failed">>)

NoJsonMsg == PyStr(<<"Could not find JSON in model output">>)

JsonDecodeErrorMsg == PyStr(<<"JSON decode error">>)

\* str(exc) of the RuntimeError of _build_llm
KeyNotSetMsg ==
    PyStr(<<"OPENAI_API_KEY not set. Set OPENAI_API_KEY (or configure Together AI separately).">>)

\* the credential check left out
CredentialsAlwaysConfigured(openai, together) == TRUE

\* line 140: OPENAI_API_KEY or TOGETHER_API_KEY
CredentialsConfigured(openai, together) == Truthy(openai) \/ Truthy(together)

\* _build_llm: raises RuntimeError without OPENAI_API_KEY; the constructor
\* of the client may fail on its own
BuildLlm(openai, prov) ==
    IF ~Truthy(openai) THEN [ok |-> FALSE, detail |-> KeyNotSetMsg]
    ELSE IF prov.kind = "build_error" THEN [ok |-> FALSE, detail |-> PyStr(prov.detail)]
    ELSE [ok |-> TRUE, detail |-> PyNone]

\* a failed request sent a second time
RunChain_Retry(inputs, prov) ==
    IF prov.kind = "reply"
    THEN [ok |-> TRUE, calls |-> <<inputs>>, raw_output |-> PyStr(prov.text),
          detail |-> PyNone]
    ELSE [ok |-> FALSE, calls |-> <<inputs, inputs>>, raw_output |-> PyNone,
          detail |-> PyStr(prov.detail)]

\* chain.run(inputs): one request to the provider, which answers or raises
RunChain(inputs, prov) ==
    IF prov.kind = "reply"
    THEN [ok |-> TRUE, calls |-> <<inputs>>, raw_output |-> PyStr(prov.text),
          detail |-> PyNone]
    ELSE [ok |-> FALSE, calls |-> <<inputs>>, raw_output |-> PyNone,
          detail |-> PyStr(prov.detail)]

\* dict.get(key, default)
DictGet(d, key, default) == IF key \in DOMAIN d THEN d[key] ELSE default

\* the isinstance test left out: the value is passed on as it is
NormalizeField_NoTypeCheck(data, key) ==
    LET v == DictGet(data.d, <<key>>, PyStr(<<>>))
    IN  IF v.t = "str" THEN PyStr(Strip(v.s)) ELSE v

\* the strip left out
NormalizeField_NoStrip(data, key) ==
    LET v == DictGet(data.d, <<key>>, PyStr(<<>>))
    IN  IF v.t = "str" THEN v ELSE PyStr(<<>>)

\* lines 177-180, one key
NormalizeField(data, key) ==
    LET v == DictGet(data.d, <<key>>, PyStr(<<>>))
    IN  IF v.t = "str" THEN PyStr(Strip(v.s)) ELSE PyStr(<<>>)

\* lines 176-181
Normalize(data) == [k \in ResultKeys |-> NormalizeField(data, k)]

ErrorResult(kind, raw) == [error |-> kind, raw |-> raw]

Returned(value, calls_made) ==
    [pc |-> "returned", ret |-> value, exc |-> "", calls |-> calls_made]

Raised(name, calls_made) ==
    [pc |-> "raised", ret |-> <<>>, exc |-> name, calls |-> calls_made]

\* lines 169-183: parse the extracted text and normalize; data.get on a
\* value that is no dict raises AttributeError
ParseAndNormalize(json_text, parsed, calls_made) ==
    IF ~parsed.ok THEN Returned(ErrorResult(JsonDecodeErrorMsg, json_text), calls_made)
    ELSE IF parsed.v.t # "dict" THEN Raised("AttributeError", calls_made)
    ELSE Returned(Normalize(parsed.v), calls_made)

\* a parse failure reported with the whole reply instead of the extract
HandleExtracted_RawTextOnDecodeError(raw_text, json_text, calls_made) ==
    IF ~Truthy(json_text) THEN Returned(ErrorResult(NoJsonMsg, raw_text), calls_made)
    ELSE IF ~JsonLoads(json_text.s).ok
    THEN Returned(ErrorResult(JsonDecodeErrorMsg, raw_text), calls_made)
    ELSE ParseAndNormalize(json_text, JsonLoads(json_text.s), calls_made)

\* lines 165-173
HandleExtracted(raw_text, json_text, calls_made) ==
    IF ~Truthy(json_text) THEN Returned(ErrorResult(NoJsonMsg, raw_text), calls_made)
    ELSE ParseAndNormalize(json_text, JsonLoads(json_text.s), calls_made)

\* lines 163-183
HandleRawText(raw_text, calls_made) ==
    HandleExtracted(raw_text, ExtractJsonFromText(raw_text), calls_made)

\* lines 161-183: what follows a provider reply
HandleReply(raw_output, calls_made) ==
    HandleRawText(PyStr(Strip(OrEmpty(raw_output).s)), calls_made)

\* lines 124-183
GenerateReflection(openai, together, req, prov) ==
    LET inputs == [k \in DOMAIN req |-> OrEmpty(req[k])]
        llm == BuildLlm(openai, prov)
        run == RunChain(inputs, prov)
    IN  IF ~CredentialsConfigured(openai, together)
        THEN Returned(ErrorResult(NoApiKeyMsg, PyNone), <<>>)
        ELSE IF ~llm.ok
        THEN Returned(ErrorResult(LlmCallFailedMsg, llm.detail), <<>>)
        ELSE IF ~run.ok
        THEN Returned(ErrorResult(LlmCallFailedMsg, run.detail), run.calls)
        ELSE HandleReply(run.raw_output, run.calls)

----------------------------------------------------------------------------
(* db/database.py *)

\* dream_summary and mindset stored ahead of strategy
SaveEntryRow_SwappedColumns(id, date, journal, intention, dream, priorities, reflection, strategy, dream_summary, mindset) ==
    <<id, date, journal, intention, dream, priorities, reflection, dream_summary,
      mindset, strategy>>

\* the row INSERT builds: the columns in the order of CREATE TABLE
SaveEntryRow(id, date, journal, intention, dream, priorities, reflection, strategy, dream_summary, mindset) ==
    <<id, date, journal, intention, dream, priorities, reflection, strategy,
      dream_summary, mindset>>

\* SELECT * FROM entries WHERE date = ?
SelectByDate(rows, date) == SelectSeq(rows, LAMBDA r : r[2] = date)

\* the arguments of one save_entry call, by parameter name
EntryArgs(date, journal, intention, dream, priorities, reflection, strategy, dream_summary, mindset) ==
    [date |-> date, journal |-> journal, intention |-> intention,
     dream |-> dream, priorities |-> priorities, reflection |-> reflection,
     strategy |-> strategy, dream_summary |-> dream_summary, mindset |-> mindset]

----------------------------------------------------------------------------
(* Inputs *)

T(w) == PyStr(<<w>>)

Dates == {T("2025-01-01"), T("2025-01-02")}

CredValues == {PyNone, PyStr(<<>>), T("sk-test")}

Requests ==
    { [journal |-> T("woke up uneasy"), intention |-> T("focus"),
       dream |-> T("a maze"), priorities |-> T("1. code")],
      [journal |-> PyNone, intention |-> PyStr(<<>>),
       dream |-> PyNone, priorities |-> PyStr(<<>>)] }

FormRequests == {r \in Requests : \A k \in DOMAIN r : r[k].t = "str"}

Fence == <<BT, BT, BT>>

KV(key, val) == <<DQ, key, DQ, ":">> \o val

Members ==
    { KV("reflection", <<DQ, " ", "x", " ", DQ>>),
      KV("dream_summary", <<DQ, "x", DQ>>),
      KV("mindset", <<"{", DQ, "x", DQ, ":", "null", "}">>),
      KV("strategy", <<"[", "5", "]">>),
      KV("x", <<DQ, "x", DQ>>),
      KV("reflection", <<DQ, "x", BT, BT, BT, "json", " ", "x", DQ>>),
      KV("strategy", <<" ">>) }

RECURSIVE Join(_, _)
\* the members of ms, from the i-th on, separated by commas
Join(ms, i) ==
    IF i > Len(ms) THEN <<>>
    ELSE IF i = Len(ms) THEN ms[i]
    ELSE ms[i] \o <<",">> \o Join(ms, i + 1)

\* the object literal with the members ms
ObjectLiteral(ms) == <<"{">> \o Join(ms, 1) \o <<"}">>

OtherBodies ==
    { <<>>, <<"x">>, <<"[", "5", "]">>, <<"null">>, <<"5">>, <<DQ, "x", DQ>>,
      <<"}", " ", "{">>, <<"{", "x">> }

Prefixes == { <<>>, Fence \o <<"json", NL>>, <<"x", " ">> }

Suffixes == { <<>>, <<NL>> \o Fence, <<" ", "x", NL>> }

Reply(text) == [kind |-> "reply", detail |-> <<>>, text |-> text]

Details == {<<"Connection error.">>, <<"Error code: 401">>}

FailureOutcomes ==
    {[kind |-> "build_error", detail |-> d, text |-> <<>>] : d \in Details}
    \cup {[kind |-> "run_error", detail |-> d, text |-> <<>>] : d \in Details}

NoProvider == [kind |-> "build_error", detail |-> <<>>, text |-> <<>>]

NoRequest == [journal |-> PyNone, intention |-> PyNone, dream |-> PyNone,
              priorities |-> PyNone]

----------------------------------------------------------------------------
(* The agent and the form handler *)

agentVars == <<OPENAI_API_KEY, TOGETHER_API_KEY, provider, request, pc, handler,
               ret, exc, calls>>

dbVars == <<schema, table, seq_id, log, qdate, qrows, qat>>

extractVars == <<xin, xout, xpc>>

normVars == <<ndata, nout, npc>>

AgentIdle ==
    /\ OPENAI_API_KEY = PyNone /\ TOGETHER_API_KEY = PyNone
    /\ provider = NoProvider /\ request = NoRequest
    /\ pc = "idle" /\ handler = "none" /\ ret = <<>> /\ exc = "" /\ calls = <<>>

DbIdle ==
    /\ schema = FALSE /\ table = <<>> /\ seq_id = 0 /\ log = <<>>
    /\ qdate = PyNone /\ qrows = <<>> /\ qat = 0

ExtractIdle == xin = PyNone /\ xout = PyNone /\ xpc = "idle"

NormIdle == ndata = PyDict(<<>>) /\ nout = <<>> /\ npc = "idle"

Init ==
    /\ OPENAI_API_KEY \in CredValues
    /\ TOGETHER_API_KEY \in {PyNone, T("tk-test")}
    /\ \/ provider \in FailureOutcomes
       \/ \E a \in Prefixes, b \in OtherBodies, c \in Suffixes :
            provider = Reply(a \o b \o c)
       \/ \E a \in Prefixes, c \in Suffixes, n \in 0..MaxMembers :
            \E ms \in [1..n -> Members] :
              provider = Reply(a \o ObjectLiteral(ms) \o c)
    /\ request \in Requests
    /\ pc = "idle" /\ handler = "none" /\ ret = <<>> /\ exc = "" /\ calls = <<>>
    /\ DbIdle /\ ExtractIdle /\ NormIdle

\* a direct call of generate_reflection (lines 200-205)
generate_reflection ==
    /\ pc = "idle"
    /\ \E out \in {GenerateReflection(OPENAI_API_KEY, TOGETHER_API_KEY, request, provider)} :
           /\ pc' = out.pc
           /\ ret' = out.ret
           /\ exc' = out.exc
           /\ calls' = out.calls
    /\ handler' = "generate_reflection"
    /\ UNCHANGED <<OPENAI_API_KEY, TOGETHER_API_KEY, provider, request>>
    /\ UNCHANGED <<dbVars, extractVars, normVars>>

\* lines 50-69 and 84-87 of main.py: read the four outputs, save the entry,
\* then query the sidebar date
SaveAndShow(today, ai_response) ==
    \E e \in {EntryArgs(today, request.journal, request.intention, request.dream,
                        request.priorities,
                        DictGet(ai_response, "reflection", PyStr(<<>>)),
                        DictGet(ai_response, "strategy", PyStr(<<>>)),
                        DictGet(ai_response, "dream_summary", PyStr(<<>>)),
                        DictGet(ai_response, "mindset", PyStr(<<>>)))} :
        /\ table' = Append(table,
               SaveEntryRow(seq_id + 1, e.date, e.journal, e.intention, e.dream,
                            e.priorities, e.reflection, e.strategy,
                            e.dream_summary, e.mindset))
        /\ seq_id' = seq_id + 1
        /\ log' = Append(log, e)
        /\ qdate' = today
        /\ qrows' = SelectByDate(table', today)
        /\ qat' = Len(log')

\* one run of main.py with the form submitted: init_db, the submitted block
\* and the sidebar query; an exception ends the run
main_submitted ==
    /\ pc = "idle"
    /\ request \in FormRequests
    /\ handler' = "main_submitted"
    /\ schema' = TRUE
    /\ \E out \in {GenerateReflection(OPENAI_API_KEY, TOGETHER_API_KEY, request, provider)} :
           /\ pc' = out.pc
           /\ ret' = out.ret
           /\ exc' = out.exc
           /\ calls' = out.calls
           /\ IF out.pc = "raised"
              THEN UNCHANGED <<table, seq_id, log, qdate, qrows, qat>>
              ELSE \E today \in Dates : SaveAndShow(today, out.ret)
    /\ UNCHANGED <<OPENAI_API_KEY, TOGETHER_API_KEY, provider, request>>
    /\ UNCHANGED <<extractVars, normVars>>

Next == generate_reflection \/ main_submitted

Spec == Init /\ [][Next]_vars

----------------------------------------------------------------------------
(* _extract_json_from_text on its own *)

ExtractPieces ==
    { Fence, Fence \o <<"json", NL>>, <<NL>> \o Fence, <<BT>>, <<" ">>,
      <<"{">>, <<"}">>, <<"x">>, <<"json">>,
      <<"{", DQ, "x", DQ, ":", "5", "}">>,
      <<DQ, "x", DQ, ":", DQ>> \o Fence \o <<"x", DQ>> }

RECURSIVE Flatten(_, _)
\* the pieces of ps, from the i-th on, one after the other
Flatten(ps, i) == IF i > Len(ps) THEN <<>> ELSE ps[i] \o Flatten(ps, i + 1)

InitExtract ==
    /\ \E n \in 0..MaxPieces :
         \E ps \in [1..n -> ExtractPieces] :
           xin \in {PyNone, PyStr(Flatten(ps, 1))}
    /\ xout = PyNone /\ xpc = "idle"
    /\ AgentIdle /\ DbIdle /\ NormIdle

extract_json ==
    /\ xpc = "idle"
    /\ xout' = ExtractJsonFromText(xin)
    /\ xpc' = "done"
    /\ UNCHANGED <<xin, agentVars, dbVars, normVars>>

NextExtract == extract_json

SpecExtract == InitExtract /\ [][NextExtract]_vars

----------------------------------------------------------------------------
(* Normalization on its own *)

PayloadKeys == {<<k>> : k \in ResultKeys} \cup {<<"x">>}

PayloadValues ==
    { PyStr(<<" ", "hi", " ", NL>>), PyStr(<<"a", " ", "b">>), PyStr(<<" ">>),
      PyInt(<<"5">>), PyNone, PyList(<<PyStr(<<"x">>)>>),
      PyDict((<<"reflection">> :> PyStr(<<"x">>))) }

\* a result read back as a parsed mapping
AsMapping(result) ==
    PyDict([k \in {<<f>> : f \in DOMAIN result} |-> result[k[1]]])

InitNorm ==
    /\ \E K \in SUBSET PayloadKeys :
         \E f \in [K -> PayloadValues] : ndata = PyDict(f)
    /\ nout = <<>> /\ npc = "idle"
    /\ AgentIdle /\ DbIdle /\ ExtractIdle

normalize ==
    /\ npc = "idle"
    /\ nout' = Normalize(ndata)
    /\ npc' = "normalized"
    /\ UNCHANGED <<ndata, agentVars, dbVars, extractVars>>

renormalize ==
    /\ npc = "normalized"
    /\ ndata' = AsMapping(nout)
    /\ nout' = Normalize(ndata')
    /\ npc' = "renormalized"
    /\ UNCHANGED <<agentVars, dbVars, extractVars>>

NextNorm == normalize \/ renormalize

SpecNorm == InitNorm /\ [][NextNorm]_vars

----------------------------------------------------------------------------
(* The entry store on its own *)

Variants == {"a", "b"}

Field(name, v) == PyStr(<<name, v>>)

InitDb == DbIdle /\ AgentIdle /\ ExtractIdle /\ NormIdle

\* CREATE TABLE IF NOT EXISTS
init_db ==
    /\ schema' = TRUE
    /\ UNCHANGED <<table, seq_id, log, qdate, qrows, qat>>
    /\ UNCHANGED <<agentVars, extractVars, normVars>>

\* main.py calls init_db at import, before any other use of the store
save_entry ==
    /\ schema
    /\ Len(log) < MaxRows
    /\ \E date \in Dates, v \in Variants :
         /\ table' = Append(table,
                SaveEntryRow(seq_id + 1, date, Field("journal", v),
                             Field("intention", v), Field("dream", v),
                             Field("priorities", v), Field("reflection", v),
                             Field("strategy", v), Field("dream_summary", v),
                             Field("mindset", v)))
         /\ log' = Append(log,
                EntryArgs(date, Field("journal", v), Field("intention", v),
                          Field("dream", v), Field("priorities", v),
                          Field("reflection", v), Field("strategy", v),
                          Field("dream_summary", v), Field("mindset", v)))
    /\ seq_id' = seq_id + 1
    /\ UNCHANGED <<schema, qdate, qrows, qat>>
    /\ UNCHANGED <<agentVars, extractVars, normVars>>

get_entry_by_date ==
    /\ schema
    /\ \E date \in Dates :
         /\ qdate' = date
         /\ qrows' = SelectByDate(table, date)
         /\ qat' = Len(log)
    /\ UNCHANGED <<schema, table, seq_id, log>>
    /\ UNCHANGED <<agentVars, extractVars, normVars>>

NextDb == init_db \/ save_entry \/ get_entry_by_date

SpecDb == InitDb /\ [][NextDb]_vars

----------------------------------------------------------------------------
(* Properties of generate_reflection and of the form handler (Spec) *)

IsReflectionResult(r) == DOMAIN r = ResultKeys /\ \A k \in ResultKeys : r[k].t = "str"

IsErrorResult(r) == DOMAIN r = ErrorKeys

NoCredential == ~Truthy(OPENAI_API_KEY) /\ ~Truthy(TOGETHER_API_KEY)

\* the text generate_reflection extracts from the reply the provider gives
ReplyText == PyStr(Strip(provider.text))

\* C1: every value generate_reflection returns has exactly the four result
\* keys, each mapped to a string, or exactly the keys error and raw; never a
\* mixture and never a subset of the four.
C1_TwoShapes ==
    pc = "returned" =>
        \/ IsReflectionResult(ret) /\ DOMAIN ret \cap ErrorKeys = {}
        \/ IsErrorResult(ret) /\ DOMAIN ret \cap ResultKeys = {}

\* a reply whose object lacks keys and holds a value that is no string came
\* back as a full result with the gaps empty
C1_Witness ==
    /\ pc = "returned" /\ provider.kind = "reply"
    /\ IsReflectionResult(ret)
    /\ ret.reflection.s # <<>> /\ ret.strategy.s = <<>> /\ ret.mindset.s = <<>>

C3_NoCredentialNoCall ==
    (pc # "idle" /\ NoCredential) =>
        /\ pc = "returned"
        /\ IsErrorResult(ret) /\ ret.error = NoApiKeyMsg /\ ret.raw = PyNone
        /\ calls = <<>>

\* no credential, and a provider that would have answered
C3_Witness ==
    /\ pc = "returned" /\ NoCredential /\ provider.kind = "reply"
    /\ IsErrorResult(ret) /\ calls = <<>>

\* C4: in the form handler save_entry runs once after a ReflectionResult and
\* not at all after an ErrorResult.
C4_SaveOnlyOnSuccess ==
    (handler = "main_submitted" /\ pc # "idle") =>
        Len(log) = IF pc = "returned" /\ IsReflectionResult(ret) THEN 1 ELSE 0

\* C7, as claimed: every invocation calls the provider exactly once.
C7_ExactlyOneCall == pc # "idle" => Len(calls) = 1

\* C7, amended: every invocation calls the provider at most once; once when
\* OPENAI_API_KEY is set and the client is built, not at all otherwise; a
\* failed call is not repeated.
C7_AtMostOneCall ==
    pc # "idle" =>
        /\ Len(calls) <= 1
        /\ Len(calls) = 1 <=>
               (Truthy(OPENAI_API_KEY) /\ provider.kind # "build_error")

\* the provider call failed and was made once
C7_Witness ==
    /\ pc = "returned" /\ provider.kind = "run_error"
    /\ IsErrorResult(ret) /\ ret.error = LlmCallFailedMsg /\ Len(calls) = 1

\* C8: the stages fail in the order credential, provider call, extraction,
\* parse; the first failing stage decides the error, and raw is absent, the
\* failure detail, the trimmed reply, or the extracted brace-delimited text.
C8_StageOrder ==
    pc # "idle" =>
        IF NoCredential
        THEN IsErrorResult(ret) /\ ret.error = NoApiKeyMsg /\ ret.raw = PyNone
        ELSE IF ~Truthy(OPENAI_API_KEY)
        THEN IsErrorResult(ret) /\ ret.error = LlmCallFailedMsg /\ ret.raw = KeyNotSetMsg
        ELSE IF provider.kind # "reply"
        THEN /\ IsErrorResult(ret) /\ ret.error = LlmCallFailedMsg
             /\ ret.raw = PyStr(provider.detail)
        ELSE IF ~Truthy(ExtractJsonFromText(ReplyText))
        THEN IsErrorResult(ret) /\ ret.error = NoJsonMsg /\ ret.raw = ReplyText
        ELSE IF ~JsonLoads(ExtractJsonFromText(ReplyText).s).ok
        THEN /\ IsErrorResult(ret) /\ ret.error = JsonDecodeErrorMsg
             /\ ret.raw = ExtractJsonFromText(ReplyText)
             /\ ret.raw.s[1] = "{" /\ ret.raw.s[Len(ret.raw.s)] = "}"
        ELSE pc = "returned" => IsReflectionResult(ret)

\* prose around a malformed object: raw is the braces and what they hold,
\* shorter than the reply
C8_Witness ==
    /\ pc = "returned" /\ provider.kind = "reply"
    /\ IsErrorResult(ret) /\ ret.error = JsonDecodeErrorMsg
    /\ provider.text[1] = "x"
    /\ Len(ret.raw.s) < Len(ReplyText.s)

----------------------------------------------------------------------------
(* Properties of _extract_json_from_text (SpecExtract) *)

\* the text after fence stripping
Cleaned == IF Truthy(xin) THEN RemoveFences(xin.s) ELSE <<>>

Opens(c) == {i \in 1..Len(c) : c[i] = "{"}

Closes(c) == {i \in 1..Len(c) : c[i] = "}"}

HasBracePair(c) == \E i \in Opens(c), j \in Closes(c) : i < j

\* the text from the first opening brace of c to its last closing brace
GreedySpan(c) ==
    SubSeq(c, CHOOSE i \in Opens(c) : \A k \in Opens(c) : i <= k,
              CHOOSE j \in Closes(c) : \A k \in Closes(c) : k <= j)

\* C5: the result is absent exactly when the input is empty or absent or
\* the cleaned text has no opening brace with a closing brace after it;
\* otherwise it is the text from the first opening brace to the last closing
\* brace, so it starts with one and ends with the other, on the fast path too.
C5_GreedyBraceRule ==
    xpc = "done" =>
        IF ~Truthy(xin) \/ ~HasBracePair(Cleaned)
        THEN xout = PyNone
        ELSE /\ xout.t = "str"
             /\ xout.s = GreedySpan(Cleaned)
             /\ xout.s[1] = "{" /\ xout.s[Len(xout.s)] = "}"

\* prose and a stray closing brace after an object: the slow path ran and the
\* result runs to the last closing brace
C5_Witness ==
    /\ xpc = "done" /\ xout.t = "str"
    /\ Cleaned[1] # "{"
    /\ Cardinality(Closes(xout.s)) = 2
    /\ Len(xout.s) < Len(Cleaned)

\* the fence rule as the specification words it: a fence token at the start
\* and one at the end are removed, and the text is trimmed
C6_StripOuterFences(s) ==
    LET t == Strip(s)
        a == IF ThreeBackticksAt(t, 1)
             THEN SubSeq(t, OpenFenceEnd(t, 1), Len(t))
             ELSE t
        b == SkipWsBack(a, Len(a) - 3)
        c == IF Len(a) >= 3 /\ ThreeBackticksAt(a, Len(a) - 2)
             THEN SubSeq(a, 1, b)
             ELSE a
    IN  Strip(c)

\* C6: only a leading and a trailing fence token are removed; a fence token
\* between the first opening brace and the last closing brace is kept.
C6_InteriorFenceKept ==
    (xpc = "done" /\ Truthy(xin) /\ HasBracePair(C6_StripOuterFences(xin.s))) =>
        /\ xout.t = "str"
        /\ xout.s = GreedySpan(C6_StripOuterFences(xin.s))

----------------------------------------------------------------------------
(* Properties of the normalization (SpecNorm) *)

\* r is s without its leading and trailing whitespace
IsTrimOf(r, s) ==
    \E a \in 1..(Len(s) + 1), b \in 0..Len(s) :
        /\ r = SubSeq(s, a, b)
        /\ \A i \in 1..(a - 1) : s[i] \in Whitespace
        /\ \A i \in (b + 1)..Len(s) : s[i] \in Whitespace
        /\ r = <<>> \/ (r[1] \notin Whitespace /\ r[Len(r)] \notin Whitespace)

\* C9: each of the four fields, on its own, is the trimmed value when the
\* key holds a string and the empty string when the key is absent or holds
\* anything else; other keys are dropped; a normalized result normalizes to
\* itself.
C9_NormalizeTotalPerKey ==
    npc # "idle" =>
        /\ DOMAIN nout = ResultKeys
        /\ \A k \in ResultKeys :
             IF <<k>> \in DOMAIN ndata.d /\ ndata.d[<<k>>].t = "str"
             THEN nout[k].t = "str" /\ IsTrimOf(nout[k].s, ndata.d[<<k>>].s)
             ELSE nout[k] = PyStr(<<>>)
        /\ npc = "renormalized" => AsMapping(nout) = ndata

\* a padded string, a number, a missing key and a key outside the four
C9_Witness ==
    /\ npc = "normalized"
    /\ DOMAIN ndata.d = {<<"reflection">>, <<"strategy">>, <<"dream_summary">>, <<"x">>}
    /\ ndata.d[<<"reflection">>] = PyStr(<<" ", "hi", " ", NL>>)
    /\ ndata.d[<<"strategy">>].t = "int"
    /\ ndata.d[<<"dream_summary">>].t = "dict"
    /\ nout.reflection = PyStr(<<"hi">>)
    /\ nout.strategy = PyStr(<<>>) /\ nout.mindset = PyStr(<<>>)

----------------------------------------------------------------------------
(* Properties of the entry store (SpecDb) *)

\* the row the i-th save_entry call is to be read back as: the id, then the
\* nine arguments in the columns of their names
RowOf(i) ==
    <<table[i][1], log[i].date, log[i].journal, log[i].intention, log[i].dream,
      log[i].priorities, log[i].reflection, log[i].strategy,
      log[i].dream_summary, log[i].mindset>>

\* the calls, among the first n, that saved an entry with the date d
SavedWith(d, n) == {i \in 1..n : log[i].date = d}

\* the k-th of them
KthSavedWith(d, n, k) ==
    CHOOSE i \in SavedWith(d, n) : Cardinality({j \in SavedWith(d, n) : j < i}) = k - 1

StoreMatchesLog ==
    /\ Len(table) = Len(log)
    /\ \A i \in 1..Len(log) : table[i] = RowOf(i)
    /\ \A i \in 1..Len(log), j \in 1..Len(log) : i # j => table[i][1] # table[j][1]

QueryMatchesLog ==
    qdate # PyNone =>
        /\ Len(qrows) = Cardinality(SavedWith(qdate, qat))
        /\ \A k \in 1..Len(qrows) : qrows[k] = RowOf(KthSavedWith(qdate, qat, k))

AppendOnly ==
    /\ Len(table') >= Len(table)
    /\ \A i \in 1..Len(table) : table'[i] = table[i]
    /\ Len(log') = Len(log) => table' = table

\* C10: the store is an append-only log: a query by date returns exactly the
\* entries saved with that date, all of them, in the order saved, each field
\* in the column of its name; no step changes or removes a stored entry, and
\* only save_entry adds one.
C10_AppendOnlyLog ==
    /\ [](StoreMatchesLog /\ QueryMatchesLog)
    /\ [][AppendOnly]_vars

\* two entries saved with the same date and a third with another one; the
\* query for the shared date returned the two, in order
C10_Witness ==
    /\ Len(table) = 3 /\ qat = 3
    /\ Len(qrows) = 2
    /\ qrows[1][2] = qdate /\ qrows[2][2] = qdate
    /\ qrows[1][1] < qrows[2][1]
    /\ qrows[1][8] # qrows[2][8]

=============================================================================
